---------------------------- MODULE Spec2Model ----------------------------
(***************************************************************************)
(* Read planner of the MergeTree storage engine                            *)
(* (dbms/src/Storages/MergeTree/MergeTreeDataSelectExecutor.cpp).          *)
(*                                                                         *)
(* markRangesFromPkRange is modelled as a state machine over its stack     *)
(* loop (one action per loop iteration).  A key of the primary-key index   *)
(* is one integer: the key tuple of key_size fields of a mark, ordered as  *)
(* the tuples are, so that index[m + 1] is the key at &index[m * key_size].*)
(*                                                                         *)
(* read calls markRangesFromPkRange once per part and pass, then one of    *)
(* the two spreaders; the callee's actions run between the call and the    *)
(* return action of read.  Column lists (data.check, column_names_to_read) *)
(* and PREWHERE are handed through unchanged and are not modelled.         *)
(***************************************************************************)
EXTENDS Integers, Sequences, FiniteSets, TLC

\* ------------------------------------------------------------ bounds
MaxMarks == 4          \* longest primary-key index, in marks
MaxKey == 2            \* keys are 0 .. MaxKey
MaxSeek == 2           \* largest min_marks_for_seek
MaxCoarse == 3         \* largest coarse_index_granularity
MaxParts == 2          \* most parts handed to a spreader
MaxPartMarks == 3      \* most marks to read of a part handed to a spreader
MaxWideMarks == 5      \* most marks of a one-range part handed to a spreader
MaxThreads == 3        \* largest thread count
MaxConcurrentRead == 2 \* largest min_marks_for_concurrent_read
MaxReadParts == 2      \* most parts of the table read is called on
MaxReadMarks == 2      \* most marks of such a part
MaxDate == 1           \* days are 0 .. MaxDate
MaxGranularity == 2    \* largest index_granularity
MaxReadThreads == 2    \* largest threads argument of read
MaxSample == 2         \* the absolute sample size, in rows

\* size_t arithmetic wraps; the model keeps a 2^30 modulus (TLC integers are
\* 32 bits wide), which is far above every mark number of the model.
SizeMod == 1073741824

\* data.settings of the table read is called on
min_rows_for_seek == 1

min_rows_for_concurrent_read == 1

read_coarse_index_granularity == 2

Keys == 0 .. MaxKey

VARIABLES
    index,                       \* the part's index handed to markRangesFromPkRange
    key_condition,               \* the PKCondition
    min_marks_for_seek,          \* MergeTreeDataSelectExecutor::min_marks_for_seek
    coarse_index_granularity,    \* data.settings.coarse_index_granularity
    pk_res,                      \* markRangesFromPkRange: res
    ranges_stack,                \* markRangesFromPkRange: ranges_stack
    pk_pc,                       \* position in markRangesFromPkRange
    probed,                      \* whether mayBeTrueInRange / mayBeTrueAfter was asked
    hits,                        \* the single-mark ranges that passed their probe, in order
    misses                       \* the marks whose single-mark range failed its probe

pkvars == <<index, key_condition, min_marks_for_seek, coarse_index_granularity,
            pk_res, ranges_stack, pk_pc, probed, hits, misses>>

VARIABLES
    sp_parts,                    \* the parts argument of the spreader, as the caller passed it
    threads,                     \* the threads argument
    use_uncompressed_cache,      \* the use_uncompressed_cache argument (a local copy)
    min_marks_for_concurrent_read,
    parts,                       \* spreadMarkRangesAmongThreads: parts after the shuffle
    sum_marks_in_parts,
    sum_marks,
    min_marks_per_thread,
    sp_i,                        \* i, the worker slot of the for loop
    need_marks,
    streams,                     \* the streams of the current worker
    sp_res,                      \* the spreader's res
    sp_pc                        \* position in the spreader

spvars == <<sp_parts, threads, use_uncompressed_cache, min_marks_for_concurrent_read,
            parts, sum_marks_in_parts, sum_marks, min_marks_per_thread, sp_i, need_marks,
            streams, sp_res, sp_pc>>

VARIABLES
    data,                        \* the table: its parts, index_granularity, sampling column
    query,                       \* the SELECT: sample_size (sample_num / sample_den), final
    settings,                    \* the settings argument of read
    read_threads,                \* the threads argument of read
    date_condition,              \* read: date_condition
    date_answers,                \* what mayBeTrueInRange answered for each part (line 47)
    prescan_ranges,              \* read: ranges of line 78, for each part scanned so far
    rd_parts,                    \* read: parts, the parts selected by date
    size,                        \* read: size, the relative sample size (a double)
    requested_count,
    total_count,
    rd_i,                        \* read: i of the loop over the parts that is running
    sampling_column_value_limit,
    filter_function,             \* read: filter_function (filter_expression evaluates it)
    parts_with_ranges,
    rd_res,                      \* read: res, as returned
    rd_pc,                       \* position in read
    error,                       \* the code of the exception read threw
    events                       \* the steps read has taken so far, in order

rdvars == <<data, query, settings, read_threads, date_condition, date_answers,
            prescan_ranges, rd_parts, size, requested_count, total_count, rd_i, sampling_column_value_limit,
            filter_function, parts_with_ranges, rd_res, rd_pc, error, events>>

vars == <<pkvars, spvars, rdvars>>

\* what markRangesFromPkRange and the spreaders leave alone
notpk == <<spvars, rdvars>>

notsp == <<pkvars, rdvars>>

\* ------------------------------------------------------------ helpers
MarkRange(b, e) == [begin |-> b, end |-> e]

SizeSub(a, b) == (a - b + SizeMod) % SizeMod

SizeAdd(a, b) == (a + b) % SizeMod

Back(s) == s[Len(s)]

PopBack(s) == SubSeq(s, 1, Len(s) - 1)

\* ------------------------------------------------------------ numbers
\* UInt64 and double values are too wide for the checker's integers: a
\* natural number is the sequence of its digits in base LimbBase, most
\* significant first, without leading zeros (the empty sequence is 0).
LimbBase == 256

RECURSIVE BigOf(_)
BigOf(n) == IF n = 0 THEN <<>> ELSE Append(BigOf(n \div LimbBase), n % LimbBase)

RECURSIVE Norm(_)
Norm(x) == IF x # <<>> /\ Head(x) = 0 THEN Norm(Tail(x)) ELSE x

\* x * n + carry, for n below 2^22
RECURSIVE BigMulSmall(_, _, _)
BigMulSmall(x, n, carry) ==
    IF x = <<>> THEN BigOf(carry)
    ELSE LET v == Back(x) * n + carry
         IN  Append(BigMulSmall(PopBack(x), n, v \div LimbBase), v % LimbBase)

RECURSIVE BigAdd(_, _, _)
BigAdd(x, y, carry) ==
    IF x = <<>> /\ y = <<>> THEN BigOf(carry)
    ELSE LET a == IF x = <<>> THEN 0 ELSE Back(x)
             b == IF y = <<>> THEN 0 ELSE Back(y)
             v == a + b + carry
         IN  Append(BigAdd(PopBack(x), PopBack(y), v \div LimbBase), v % LimbBase)

RECURSIVE BigMul(_, _)
BigMul(x, y) ==
    IF y = <<>> THEN <<>>
    ELSE Norm(BigAdd(BigMulSmall(BigMul(x, PopBack(y)), LimbBase, 0),
                     BigMulSmall(x, Back(y), 0), 0))

\* the digits of x \div d, for d below 2^22
RECURSIVE DivDigits(_, _, _)
DivDigits(x, d, rem) ==
    IF x = <<>> THEN <<>>
    ELSE LET v == rem * LimbBase + Head(x)
         IN  <<v \div d>> \o DivDigits(Tail(x), d, v % d)

BigDivSmall(x, d) == Norm(DivDigits(x, d, 0))

RECURSIVE BigModSmall(_, _)
BigModSmall(x, d) ==
    IF x = <<>> THEN 0 ELSE (BigModSmall(PopBack(x), d) * LimbBase + Back(x)) % d

RECURSIVE BitsOf(_)
BitsOf(n) == IF n = 0 THEN 0 ELSE 1 + BitsOf(n \div 2)

BitLen(x) == IF x = <<>> THEN 0 ELSE 8 * (Len(x) - 1) + BitsOf(Head(x))

RECURSIVE ShiftLeft(_, _)
ShiftLeft(x, s) ==
    IF s = 0 \/ x = <<>> THEN x
    ELSE IF s >= 8 THEN ShiftLeft(Append(x, 0), s - 8)
    ELSE BigMulSmall(x, 2 ^ s, 0)

\* x \div 2^s
RECURSIVE FloorShift(_, _)
FloorShift(x, s) ==
    IF s = 0 \/ x = <<>> THEN x
    ELSE IF s >= 8 THEN FloorShift(PopBack(x), s - 8)
    ELSE BigDivSmall(x, 2 ^ s)

\* x / 2^s rounded to the nearest integer, ties to even; sticky tells that
\* non-zero bits were already dropped below x
RECURSIVE RoundShift(_, _, _)
RoundShift(x, s, sticky) ==
    IF s = 0 THEN x
    ELSE IF s > 8 THEN RoundShift(PopBack(x), s - 8, sticky \/ Back(x) # 0)
    ELSE LET low == BigModSmall(x, 2 ^ s)
             q == BigDivSmall(x, 2 ^ s)
             half == 2 ^ (s - 1)
         IN  IF low > half \/ (low = half /\ (sticky \/ BigModSmall(q, 2) = 1))
             THEN Norm(BigAdd(q, <<>>, 1))
             ELSE q

\* A finite non-negative double is m * 2^e with m below 2^53 (or 2^53 itself).
Double(m, e) == [m |-> m, e |-> e]

\* the double nearest to x * 2^e (sticky: x itself was cut from a longer number)
RoundToDouble(x, e, sticky) ==
    IF BitLen(x) <= 53 THEN Double(x, e)
    ELSE Double(RoundShift(x, BitLen(x) - 53, sticky), e + BitLen(x) - 53)

\* static_cast<double> of an unsigned integer
DoubleOfUInt(x) == RoundToDouble(x, 0, FALSE)

\* the double a / b of two doubles that hold the integers num and den > 0
\* (also the double a literal num/den is parsed to)
DoubleOfRatio(num, den) ==
    IF num = 0 THEN Double(<<>>, 0)
    ELSE LET k == 64 + BitsOf(den)
             scaled == ShiftLeft(BigOf(num), k)
         IN  RoundToDouble(BigDivSmall(scaled, den), 0 - k, BigModSmall(scaled, den) # 0)

DoubleMul(a, b) == RoundToDouble(BigMul(a.m, b.m), a.e + b.e, FALSE)

\* the integer part of a double
DoubleFloor(d) == IF d.e >= 0 THEN ShiftLeft(d.m, d.e) ELSE FloorShift(d.m, 0 - d.e)

\* ------------------------------------------------------------ PKCondition
\* The condition is the set of keys that satisfy it (sat); conservative says
\* whether its probes keep the contract "never false when a key of the
\* interval satisfies it"; added lists the ranges given to addCondition.
NonDecreasing(s) == \A i \in 1 .. Len(s) - 1 : s[i] <= s[i + 1]

Indexes == UNION {{s \in [1 .. n -> Keys] : NonDecreasing(s)} : n \in 0 .. MaxMarks}

Conditions ==
    {[always_true |-> a, sat |-> s, conservative |-> c, added |-> <<>>] :
        a \in BOOLEAN, s \in SUBSET Keys, c \in BOOLEAN}

\* alwaysTrue() may only answer true for a condition every key satisfies; a
\* condition that breaks the contract carries no satisfying set of its own.
ValidCondition(c) ==
    /\ c.always_true => (c.sat = Keys /\ c.conservative)
    /\ ~c.conservative => c.sat = {}

marks_count == Len(index)

\* Whether some key between the bounds of the probe satisfies the condition.
SatisfiedInRange(cond, left, right) == \E k \in cond.sat : left <= k /\ k <= right

SatisfiedAfter(cond, left) == \E k \in cond.sat : left <= k

\* The answers mayBeTrueAfter / mayBeTrueInRange may give for a popped range.
\* On an empty index &index[0] is read past the end: any answer.
MayBeTrueAnswers(range) ==
    IF range.begin >= marks_count THEN BOOLEAN
    ELSE IF ~key_condition.conservative THEN BOOLEAN
    ELSE IF range.end = marks_count
         THEN IF SatisfiedAfter(key_condition, index[range.begin + 1])
              THEN {TRUE} ELSE BOOLEAN
         ELSE IF SatisfiedInRange(key_condition, index[range.begin + 1], index[range.end + 1])
              THEN {TRUE} ELSE BOOLEAN

\* ------------------------------------------------------------ markRangesFromPkRange
\* lines 452-458: the chunks pushed for a passing range of two or more marks
SplitStep(range) ==
    SizeSub(SizeSub(range.end, range.begin), 1) \div coarse_index_granularity + 1

\* the split without its last push (line 458 forgotten)
RECURSIVE PushChunks_NoLeftmost(_, _, _, _)
PushChunks_NoLeftmost(stack, begin, end, step) ==
    IF end > SizeAdd(begin, step)
    THEN PushChunks_NoLeftmost(Append(stack, MarkRange(SizeSub(end, step), end)), begin,
                               SizeSub(end, step), step)
    ELSE stack

\* the split tiled from the left: chunks of step marks from range.begin on, the
\* rightmost chunk taking what is left
RECURSIVE PushChunks_FromLeft(_, _, _, _)
PushChunks_FromLeft(stack, begin, end, step) ==
    IF end > SizeAdd(begin, step)
    THEN Append(PushChunks_FromLeft(stack, SizeAdd(begin, step), end, step),
                MarkRange(begin, SizeAdd(begin, step)))
    ELSE Append(stack, MarkRange(begin, end))

\* lines 455-458
RECURSIVE PushChunks(_, _, _, _)
PushChunks(stack, begin, end, step) ==
    IF end > SizeAdd(begin, step)
    THEN PushChunks(Append(stack, MarkRange(SizeSub(end, step), end)), begin,
                    SizeSub(end, step), step)
    ELSE Append(stack, MarkRange(begin, end))

SplitRange(stack, range) == PushChunks(stack, range.begin, range.end, SplitStep(range))

\* every single-mark hit starts a range of its own (lines 446-447 dropped)
AddMark_NeverMerge(res, range) == Append(res, range)

\* the coalescing test with >= for > (line 444)
AddMark_GreaterOrEqual(res, range) ==
    IF res = <<>> \/ SizeSub(range.begin, Back(res).end) >= min_marks_for_seek
    THEN Append(res, range)
    ELSE [res EXCEPT ![Len(res)].end = range.end]

\* lines 444-447: add a single-mark hit to the last range or start a new one
AddMark(res, range) ==
    IF res = <<>> \/ SizeSub(range.begin, Back(res).end) > min_marks_for_seek
    THEN Append(res, range)
    ELSE [res EXCEPT ![Len(res)].end = range.end]

\* markRangesFromPkRange without the alwaysTrue shortcut of lines 414-417
PkEnter_NoShortcut ==
    /\ pk_pc = "call"
    /\ pk_res' = <<>>
    /\ ranges_stack' = <<MarkRange(0, marks_count)>>
    /\ pk_pc' = "loop"
    /\ UNCHANGED <<index, key_condition, min_marks_for_seek, coarse_index_granularity, probed,
               hits, misses>>
    /\ UNCHANGED notpk

\* lines 408-426
PkEnter ==
    /\ pk_pc = "call"
    /\ IF key_condition.always_true
       THEN /\ pk_res' = <<MarkRange(0, marks_count)>>
            /\ ranges_stack' = <<>>
            /\ pk_pc' = "done"
       ELSE /\ pk_res' = <<>>
            /\ ranges_stack' = <<MarkRange(0, marks_count)>>
            /\ pk_pc' = "loop"
    /\ UNCHANGED <<index, key_condition, min_marks_for_seek, coarse_index_granularity, probed,
               hits, misses>>
    /\ UNCHANGED notpk

\* lines 427-439: the popped range fails its probe
PkDrop ==
    /\ pk_pc = "loop"
    /\ ranges_stack # <<>>
    /\ FALSE \in MayBeTrueAnswers(Back(ranges_stack))
    /\ ranges_stack' = PopBack(ranges_stack)
    /\ probed' = TRUE
    /\ misses' = IF Back(ranges_stack).end = Back(ranges_stack).begin + 1
                 THEN misses \cup {Back(ranges_stack).begin} ELSE misses
    /\ UNCHANGED hits
    /\ UNCHANGED <<index, key_condition, min_marks_for_seek, coarse_index_granularity,
                   pk_res, pk_pc>>
    /\ UNCHANGED notpk

\* lines 427-448: the popped range passes and is one mark long
PkLeaf ==
    /\ pk_pc = "loop"
    /\ ranges_stack # <<>>
    /\ TRUE \in MayBeTrueAnswers(Back(ranges_stack))
    /\ Back(ranges_stack).end = Back(ranges_stack).begin + 1
    /\ pk_res' = AddMark(pk_res, Back(ranges_stack))
    /\ ranges_stack' = PopBack(ranges_stack)
    /\ probed' = TRUE
    /\ hits' = Append(hits, Back(ranges_stack))
    /\ UNCHANGED misses
    /\ UNCHANGED <<index, key_condition, min_marks_for_seek, coarse_index_granularity, pk_pc>>
    /\ UNCHANGED notpk

\* lines 427-437, 449-459: the popped range passes and is split
PkSplit ==
    /\ pk_pc = "loop"
    /\ ranges_stack # <<>>
    /\ TRUE \in MayBeTrueAnswers(Back(ranges_stack))
    /\ Back(ranges_stack).end # Back(ranges_stack).begin + 1
    /\ ranges_stack' = SplitRange(PopBack(ranges_stack), Back(ranges_stack))
    /\ probed' = TRUE
    /\ UNCHANGED <<hits, misses>>
    /\ UNCHANGED <<index, key_condition, min_marks_for_seek, coarse_index_granularity,
                   pk_res, pk_pc>>
    /\ UNCHANGED notpk

\* lines 427, 463: the stack is empty, return res
PkReturn ==
    /\ pk_pc = "loop"
    /\ ranges_stack = <<>>
    /\ pk_pc' = "done"
    /\ UNCHANGED <<index, key_condition, min_marks_for_seek, coarse_index_granularity,
                   pk_res, ranges_stack, probed, hits, misses>>
    /\ UNCHANGED notpk

PkNext == PkEnter \/ PkDrop \/ PkLeaf \/ PkSplit \/ PkReturn

\* the state of markRangesFromPkRange while it is not running
PkIdle ==
    /\ index = <<>>
    /\ key_condition = [always_true |-> TRUE, sat |-> Keys, conservative |-> TRUE,
                        added |-> <<>>]
    /\ min_marks_for_seek = 0
    /\ coarse_index_granularity = 1
    /\ pk_res = <<>>
    /\ ranges_stack = <<>>
    /\ pk_pc = "idle"
    /\ probed = FALSE
    /\ hits = <<>>
    /\ misses = {}

PkInit ==
    /\ index \in Indexes
    /\ key_condition \in {c \in Conditions : ValidCondition(c)}
    /\ min_marks_for_seek \in 0 .. MaxSeek
    /\ coarse_index_granularity \in 1 .. MaxCoarse
    /\ pk_res = <<>>
    /\ ranges_stack = <<>>
    /\ pk_pc = "call"
    /\ probed = FALSE
    /\ hits = <<>>
    /\ misses = {}

\* ------------------------------------------------------------ streams
\* A stream is a record: kind names its class, part and ranges are those of a
\* MergeTreeBlockInputStream (part 0 otherwise), inputs are the wrapped streams,
\* arg is the expression or column a wrapper is built with.
\* arg: a function applied to a column and a literal, or a named expression
Expr(function, column, literal) ==
    [function |-> function, column |-> column, literal |-> literal]

NoExpr == Expr("", "", <<>>)

MergeTreeBlockInputStream(part, ranges, use_cache) ==
    [kind |-> "MergeTree", part |-> part, ranges |-> ranges, use_cache |-> use_cache,
     inputs |-> <<>>, arg |-> NoExpr]

Wrapper(kind, inputs, arg) ==
    [kind |-> kind, part |-> 0, ranges |-> <<>>, use_cache |-> FALSE,
     inputs |-> inputs, arg |-> arg]

ConcatBlockInputStream(inputs) == Wrapper("Concat", inputs, NoExpr)

Reverse(s) == [k \in 1 .. Len(s) |-> s[Len(s) + 1 - k]]

RECURSIVE SumRanges(_)
SumRanges(ranges) ==
    IF ranges = <<>> THEN 0
    ELSE SizeSub(Back(ranges).end, Back(ranges).begin) + SumRanges(PopBack(ranges))

RECURSIVE SumSeq(_)
SumSeq(s) == IF s = <<>> THEN 0 ELSE Back(s) + SumSeq(PopBack(s))

Min(a, b) == IF a < b THEN a ELSE b

\* a shuffle that is no permutation: a part may be drawn twice
Shuffles_AnyMap(n) == [1 .. n -> 1 .. n]

Shuffles(n) == {f \in [1 .. n -> 1 .. n] : \A a, b \in 1 .. n : f[a] = f[b] => a = b}

\* line 17
max_marks_to_use_cache == 3

\* ------------------------------------------------------------ spreadMarkRangesAmongThreads
\* line 252 without the - 1 of the rounding up
MinMarksPerThread_Plain(sum, t) == sum \div t + 1

\* min_marks_per_thread rounded down (line 252 without the ceiling)
MinMarksPerThread_Floor(sum, t) == sum \div t

\* line 252
MinMarksPerThread(sum, t) == SizeSub(sum, 1) \div t + 1

\* lines 266-268: do not take too few marks from a part
NeedAtLeastMin(need, marks_in_part) ==
    IF marks_in_part >= min_marks_for_concurrent_read /\ need < min_marks_for_concurrent_read
    THEN min_marks_for_concurrent_read
    ELSE need

\* a remainder of any size is left in the part (lines 271-273 dropped)
NeedWholeRemainder_Skipped(need, marks_in_part) == need

\* lines 271-273: do not leave too few marks in a part
NeedWholeRemainder(need, marks_in_part) ==
    IF marks_in_part > need /\ SizeSub(marks_in_part, need) < min_marks_for_concurrent_read
    THEN marks_in_part
    ELSE need

AdjustedNeed(need, marks_in_part) ==
    NeedWholeRemainder(NeedAtLeastMin(need, marks_in_part), marks_in_part)

\* the whole-part stream without restoring the order of the ranges (line 279 forgotten)
WholePartStream_NotRestored(part, use_cache) ==
    MergeTreeBlockInputStream(part.name, part.ranges, use_cache)

\* lines 278-284
WholePartStream(part, use_cache) ==
    MergeTreeBlockInputStream(part.name, Reverse(part.ranges), use_cache)

\* the loop over the ranges of a part that does not advance range.begin (line 304 forgotten)
RECURSIVE PeelRanges_NoAdvance(_, _, _, _)
PeelRanges_NoAdvance(ranges, got, marks_in_part, need) ==
    IF need = 0
    THEN [ranges |-> ranges, got |-> got, marks_in_part |-> marks_in_part,
          need |-> need, failed |-> FALSE]
    ELSE IF ranges = <<>>
    THEN [ranges |-> ranges, got |-> got, marks_in_part |-> marks_in_part,
          need |-> need, failed |-> TRUE]
    ELSE LET range == Back(ranges)
             marks_to_get_from_range == Min(SizeSub(range.end, range.begin), need)
         IN  PeelRanges_NoAdvance(
                 ranges,
                 Append(got, MarkRange(range.begin, range.begin + marks_to_get_from_range)),
                 SizeSub(marks_in_part, marks_to_get_from_range),
                 SizeSub(need, marks_to_get_from_range))

\* the loop over the ranges of a part run once only (an if for the while of line 294)
PeelRanges_Once(ranges, got, marks_in_part, need) ==
    IF need = 0
    THEN [ranges |-> ranges, got |-> got, marks_in_part |-> marks_in_part,
          need |-> need, failed |-> FALSE]
    ELSE IF ranges = <<>>
    THEN [ranges |-> ranges, got |-> got, marks_in_part |-> marks_in_part,
          need |-> need, failed |-> TRUE]
    ELSE LET range == Back(ranges)
             marks_to_get_from_range == Min(SizeSub(range.end, range.begin), need)
             advanced == [range EXCEPT !.begin = range.begin + marks_to_get_from_range]
         IN  [ranges |-> IF advanced.begin = advanced.end
                         THEN PopBack(ranges)
                         ELSE [ranges EXCEPT ![Len(ranges)] = advanced],
              got |-> Append(got, MarkRange(range.begin, range.begin + marks_to_get_from_range)),
              marks_in_part |-> SizeSub(marks_in_part, marks_to_get_from_range),
              need |-> SizeSub(need, marks_to_get_from_range),
              failed |-> FALSE]

\* the loop over the ranges of a part with push_front for the push_back of line 303
RECURSIVE PeelRanges_Prepend(_, _, _, _)
PeelRanges_Prepend(ranges, got, marks_in_part, need) ==
    IF need = 0
    THEN [ranges |-> ranges, got |-> got, marks_in_part |-> marks_in_part,
          need |-> need, failed |-> FALSE]
    ELSE IF ranges = <<>>
    THEN [ranges |-> ranges, got |-> got, marks_in_part |-> marks_in_part,
          need |-> need, failed |-> TRUE]
    ELSE LET range == Back(ranges)
             marks_to_get_from_range == Min(SizeSub(range.end, range.begin), need)
             advanced == [range EXCEPT !.begin = range.begin + marks_to_get_from_range]
         IN  PeelRanges_Prepend(
                 IF advanced.begin = advanced.end
                 THEN PopBack(ranges)
                 ELSE [ranges EXCEPT ![Len(ranges)] = advanced],
                 <<MarkRange(range.begin, range.begin + marks_to_get_from_range)>> \o got,
                 SizeSub(marks_in_part, marks_to_get_from_range),
                 SizeSub(need, marks_to_get_from_range))

\* lines 294-309: the loop over the ranges of a part; failed is the throw of line 297
RECURSIVE PeelRanges(_, _, _, _)
PeelRanges(ranges, got, marks_in_part, need) ==
    IF need = 0
    THEN [ranges |-> ranges, got |-> got, marks_in_part |-> marks_in_part,
          need |-> need, failed |-> FALSE]
    ELSE IF ranges = <<>>
    THEN [ranges |-> ranges, got |-> got, marks_in_part |-> marks_in_part,
          need |-> need, failed |-> TRUE]
    ELSE LET range == Back(ranges)
             marks_to_get_from_range == Min(SizeSub(range.end, range.begin), need)
             advanced == [range EXCEPT !.begin = range.begin + marks_to_get_from_range]
         IN  PeelRanges(
                 IF advanced.begin = advanced.end
                 THEN PopBack(ranges)
                 ELSE [ranges EXCEPT ![Len(ranges)] = advanced],
                 Append(got, MarkRange(range.begin, range.begin + marks_to_get_from_range)),
                 SizeSub(marks_in_part, marks_to_get_from_range),
                 SizeSub(need, marks_to_get_from_range))

\* lines 226-252: shuffle, reverse the ranges, count the marks
SpPrepare ==
    /\ sp_pc = "call"
    /\ \E perm \in Shuffles(Len(sp_parts)) :
          LET shuffled == [k \in 1 .. Len(sp_parts) |->
                              [name |-> sp_parts[perm[k]].name,
                               ranges |-> Reverse(sp_parts[perm[k]].ranges)]]
              sums == [k \in 1 .. Len(sp_parts) |-> SumRanges(shuffled[k].ranges)]
          IN  /\ parts' = shuffled
              /\ sum_marks_in_parts' = sums
              /\ sum_marks' = SumSeq(sums)
              /\ use_uncompressed_cache' =
                    (use_uncompressed_cache /\ ~(SumSeq(sums) > max_marks_to_use_cache))
              /\ IF SumSeq(sums) > 0
                 THEN /\ min_marks_per_thread' = MinMarksPerThread(SumSeq(sums), threads)
                      /\ sp_pc' = "for"
                 ELSE /\ min_marks_per_thread' = 0
                      /\ sp_pc' = "done"
    /\ sp_i' = 0
    /\ sp_res' = <<>>
    /\ UNCHANGED <<sp_parts, threads, min_marks_for_concurrent_read, need_marks, streams>>
    /\ UNCHANGED notsp

\* lines 254-257: the next worker slot
SpWorkerBegin ==
    /\ sp_pc = "for"
    /\ sp_i < threads /\ parts # <<>>
    /\ need_marks' = min_marks_per_thread
    /\ streams' = <<>>
    /\ sp_pc' = "while"
    /\ UNCHANGED <<sp_parts, threads, use_uncompressed_cache, min_marks_for_concurrent_read,
                   parts, sum_marks_in_parts, sum_marks, min_marks_per_thread, sp_i, sp_res>>
    /\ UNCHANGED notsp

\* lines 260-289: the part at the back is taken whole
SpTakeWholePart ==
    /\ sp_pc = "while"
    /\ need_marks > 0 /\ parts # <<>>
    /\ LET marks_in_part == Back(sum_marks_in_parts)
           need == AdjustedNeed(need_marks, marks_in_part)
       IN  /\ marks_in_part <= need
           /\ streams' = Append(streams, WholePartStream(Back(parts), use_uncompressed_cache))
           /\ need_marks' = SizeSub(need, marks_in_part)
           /\ parts' = PopBack(parts)
           /\ sum_marks_in_parts' = PopBack(sum_marks_in_parts)
           /\ sp_pc' = "while"
    /\ UNCHANGED <<sp_parts, threads, use_uncompressed_cache, min_marks_for_concurrent_read,
                   sum_marks, min_marks_per_thread, sp_i, sp_res>>
    /\ UNCHANGED notsp

\* lines 260-274, 291-314: a portion of the part at the back is taken
SpTakePortion ==
    /\ sp_pc = "while"
    /\ need_marks > 0 /\ parts # <<>>
    /\ LET marks_in_part == Back(sum_marks_in_parts)
           need == AdjustedNeed(need_marks, marks_in_part)
           peeled == PeelRanges(Back(parts).ranges, <<>>, marks_in_part, need)
       IN  /\ ~(marks_in_part <= need)
           /\ parts' = [parts EXCEPT ![Len(parts)].ranges = peeled.ranges]
           /\ sum_marks_in_parts' =
                 [sum_marks_in_parts EXCEPT ![Len(parts)] = peeled.marks_in_part]
           /\ need_marks' = peeled.need
           /\ IF peeled.failed
              THEN /\ sp_pc' = "unexpected_end_of_ranges"
                   /\ streams' = streams
              ELSE /\ sp_pc' = "while"
                   /\ streams' = Append(streams,
                         MergeTreeBlockInputStream(Back(parts).name, peeled.got,
                                                   use_uncompressed_cache))
    /\ UNCHANGED <<sp_parts, threads, use_uncompressed_cache, min_marks_for_concurrent_read,
                   sum_marks, min_marks_per_thread, sp_i, sp_res>>
    /\ UNCHANGED notsp

\* lines 260, 317-321: the worker has its marks, or no part is left
SpWorkerEnd ==
    /\ sp_pc = "while"
    /\ ~(need_marks > 0 /\ parts # <<>>)
    /\ sp_res' = Append(sp_res,
                        IF Len(streams) = 1 THEN streams[1] ELSE ConcatBlockInputStream(streams))
    /\ sp_i' = sp_i + 1
    /\ sp_pc' = "for"
    /\ UNCHANGED <<sp_parts, threads, use_uncompressed_cache, min_marks_for_concurrent_read,
                   parts, sum_marks_in_parts, sum_marks, min_marks_per_thread, need_marks,
                   streams>>
    /\ UNCHANGED notsp

\* lines 254, 323-327: the for loop is over
SpReturn ==
    /\ sp_pc = "for"
    /\ ~(sp_i < threads /\ parts # <<>>)
    /\ sp_pc' = IF parts # <<>> THEN "couldnt_spread_marks" ELSE "done"
    /\ UNCHANGED <<sp_parts, threads, use_uncompressed_cache, min_marks_for_concurrent_read,
                   parts, sum_marks_in_parts, sum_marks, min_marks_per_thread, sp_i, need_marks,
                   streams, sp_res>>
    /\ UNCHANGED notsp

SpNext ==
    SpPrepare \/ SpWorkerBegin \/ SpTakeWholePart \/ SpTakePortion \/ SpWorkerEnd \/ SpReturn

\* ------------------------------------------------------------ spreadMarkRangesAmongThreadsFinal
ExpressionBlockInputStream(input, expression) == Wrapper("Expression", <<input>>, expression)

FilterBlockInputStream(input, column) == Wrapper("Filter", <<input>>, column)

CollapsingFinalBlockInputStream(inputs, sign_column) ==
    Wrapper("CollapsingFinal", inputs, sign_column)

\* lines 374-403, createPositiveSignCondition: the expression and its column name
sign_filter_expression == Expr("equals", "sign_column", <<1>>)

sign_filter_column == Expr("equals", "sign_column", <<1>>)

\* data.getPrimaryExpression()
primary_expression == Expr("primary_expression", "", <<>>)

\* lines 353-363
ToCollapse(input_parts, use_cache) ==
    [k \in 1 .. Len(input_parts) |->
        ExpressionBlockInputStream(
            MergeTreeBlockInputStream(input_parts[k].name, input_parts[k].ranges, use_cache),
            primary_expression)]

\* the collapsing merge also built over a single stream (>= 1 for == 1 at line 366)
FinalResult_AlwaysCollapse(to_collapse) ==
    IF Len(to_collapse) >= 1
    THEN <<CollapsingFinalBlockInputStream(to_collapse, Expr("", "sign_column", <<>>))>>
    ELSE <<>>

\* lines 365-369
FinalResult(to_collapse) ==
    IF Len(to_collapse) = 1
    THEN <<FilterBlockInputStream(
              ExpressionBlockInputStream(to_collapse[1], sign_filter_expression),
              sign_filter_column)>>
    ELSE IF Len(to_collapse) > 1
    THEN <<CollapsingFinalBlockInputStream(to_collapse, Expr("", "sign_column", <<>>))>>
    ELSE <<>>

\* lines 330-372
SpFinal ==
    /\ sp_pc = "call_final"
    /\ LET sum == SumSeq([k \in 1 .. Len(sp_parts) |-> SumRanges(sp_parts[k].ranges)])
           use_cache == use_uncompressed_cache /\ ~(sum > max_marks_to_use_cache)
       IN  /\ sum_marks' = sum
           /\ use_uncompressed_cache' = use_cache
           /\ sp_res' = FinalResult(ToCollapse(sp_parts, use_cache))
    /\ sp_pc' = "done_final"
    /\ UNCHANGED <<sp_parts, threads, min_marks_for_concurrent_read, parts,
                   sum_marks_in_parts, min_marks_per_thread, sp_i, need_marks, streams>>
    /\ UNCHANGED notsp

\* The range lists read hands to a spreader: what markRangesFromPkRange returns
\* and line 155 lets through.  A list has 1 .. MaxPartMarks marks in ranges of
\* any lengths, the first at mark 0 and each one skipped mark after the last
\* (the spreader reads no gap); lengths <<0>> give [0, 0), what an empty part
\* yields under alwaysTrue (lines 414-417).
RECURSIVE RangesOfLengths(_, _)
RangesOfLengths(lengths, from) ==
    IF lengths = <<>> THEN <<>>
    ELSE <<MarkRange(from, from + lengths[1])>>
         \o RangesOfLengths(SubSeq(lengths, 2, Len(lengths)), from + lengths[1] + 1)

RangeLengths ==
    UNION {{l \in [1 .. n -> 1 .. MaxPartMarks] : SumSeq(l) <= MaxPartMarks} :
              n \in 1 .. MaxPartMarks}
    \cup {<<0>>}

\* The parts of an input list are listed in one fixed order of their range
\* lists: the shuffle of line 226 puts them in every order, and a part's name
\* is its place in the list.
RECURSIVE LengthsCode(_)
LengthsCode(lengths) ==
    IF lengths = <<>> THEN 0
    ELSE LengthsCode(PopBack(lengths)) * (MaxPartMarks + 1) + Back(lengths)

PartLists ==
    UNION {{[k \in 1 .. n |-> [name |-> k, ranges |-> RangesOfLengths(ls[k], 0)]] :
               ls \in {l \in [1 .. n -> RangeLengths] :
                          \A k \in 1 .. n - 1 : LengthsCode(l[k]) <= LengthsCode(l[k + 1])}} :
              n \in 0 .. MaxParts}

\* Lists of parts of one range each, of up to MaxWideMarks marks, next to the
\* lists above: parts wide enough to be cut under every threshold.
WidePartLists ==
    PartLists
    \cup UNION {{[k \in 1 .. n |-> [name |-> k, ranges |-> <<MarkRange(0, ls[k])>>]] :
                    ls \in {l \in [1 .. n -> 1 .. MaxWideMarks] :
                               \A k \in 1 .. n - 1 : l[k] <= l[k + 1]}} :
                   n \in 1 .. MaxParts}

\* ------------------------------------------------------------ read
\* lines 15-17: rows to marks, rounded up
MarksForRows(rows, index_granularity) == (rows + index_granularity - 1) \div index_granularity

Dates == 0 .. MaxDate

\* date_condition.mayBeTrueInRange on the envelope of a part (line 47): true
\* when a day of the envelope satisfies the condition, any answer otherwise
DateMayBeTrueAnswers(part) ==
    IF \E d \in date_condition.sat : part.left_date <= d /\ d <= part.right_date
    THEN {TRUE} ELSE BOOLEAN

\* every part kept, whatever date_condition answers (the test of line 47 dropped)
SelectParts_All(data_parts, selected) == data_parts

\* lines 42-49: the parts kept, in the order of data_parts
RECURSIVE SelectParts(_, _)
SelectParts(data_parts, selected) ==
    IF data_parts = <<>> THEN <<>>
    ELSE SelectParts(PopBack(data_parts), selected)
         \o (IF selected[Len(data_parts)] THEN <<Back(data_parts)>> ELSE <<>>)

\* lines 93-100: std::numeric_limits<T>::max() of the sampling column's type
UnsignedTypes == {"UInt8", "UInt16", "UInt32", "UInt64"}

SamplingColumnMax(type) ==
    CASE type = "UInt64" -> [k \in 1 .. 8 |-> 255]
      [] type = "UInt32" -> [k \in 1 .. 4 |-> 255]
      [] type = "UInt16" -> [k \in 1 .. 2 |-> 255]
      [] type = "UInt8" -> <<255>>

\* line 105: static_cast<UInt64>(size * sampling_column_max).  The product is
\* a double product (sampling_column_max is converted to double first); a
\* product of 2^64 or more is out of the range of UInt64 and the cast is
\* undefined: builds give 0, 2^63 or 2^64 - 1.
SamplingLimits(sample_size, type) ==
    LET product == DoubleMul(sample_size, DoubleOfUInt(SamplingColumnMax(type)))
    IN  IF BitLen(DoubleFloor(product)) > 64
        THEN {<<>>, <<128, 0, 0, 0, 0, 0, 0, 0>>, [k \in 1 .. 8 |-> 255]}
        ELSE {DoubleFloor(product)}

\* Range::createRightBounded(limit, true) on a column
RightBounded(column, limit) == [column |-> column, right |-> limit, inclusive |-> TRUE]

\* markRangesFromPkRange writes to the key_condition it has by reference (line 406)
CallMarkRanges_Mutating(part) ==
    /\ index' = part.index
    /\ pk_res' = <<>>
    /\ ranges_stack' = <<>>
    /\ probed' = FALSE
    /\ hits' = <<>>
    /\ misses' = {}
    /\ pk_pc' = "call"
    /\ key_condition' = [key_condition EXCEPT !.sat = {}]
    /\ UNCHANGED <<min_marks_for_seek, coarse_index_granularity>>

\* markRangesFromPkRange is entered for a part (lines 78, 153)
CallMarkRanges(part) ==
    /\ index' = part.index
    /\ pk_res' = <<>>
    /\ ranges_stack' = <<>>
    /\ probed' = FALSE
    /\ hits' = <<>>
    /\ misses' = {}
    /\ pk_pc' = "call"
    /\ UNCHANGED <<key_condition, min_marks_for_seek, coarse_index_granularity>>

\* lines 30-50: the parts whose date envelope may hold matching rows
RdSelectParts ==
    /\ rd_pc = "start"
    /\ \E selected \in [1 .. Len(data.parts) -> BOOLEAN] :
          /\ \A k \in 1 .. Len(data.parts) : selected[k] \in DateMayBeTrueAnswers(data.parts[k])
          /\ date_answers' = selected
          /\ rd_parts' = SelectParts(data.parts, selected)
    /\ rd_pc' = "sample"
    /\ events' = Append(events, "select_parts")
    /\ UNCHANGED <<data, query, settings, read_threads, date_condition, prescan_ranges,
                   size, requested_count, total_count, rd_i, sampling_column_value_limit,
                   filter_function, parts_with_ranges, rd_res, error>>
    /\ UNCHANGED <<pkvars, spvars>>

\* line 60: no sample clause
RdNoSample ==
    /\ rd_pc = "sample"
    /\ ~query.has_sample
    /\ rd_i' = 0
    /\ rd_pc' = "ranges"
    /\ UNCHANGED <<data, query, settings, read_threads, date_condition, date_answers,
                   prescan_ranges, rd_parts, size,
                   requested_count, total_count, sampling_column_value_limit,
                   filter_function, parts_with_ranges, rd_res, error, events>>
    /\ UNCHANGED <<pkvars, spvars>>

\* lines 60-66: a negative sample size
RdNegativeSample ==
    /\ rd_pc = "sample"
    /\ query.has_sample
    /\ query.sample_num < 0
    /\ error' = "ARGUMENT_OUT_OF_BOUND"
    /\ rd_pc' = "error"
    /\ UNCHANGED <<data, query, settings, read_threads, date_condition, date_answers,
                   prescan_ranges, rd_parts, size,
                   requested_count, total_count, rd_i, sampling_column_value_limit,
                   filter_function, parts_with_ranges, rd_res, events>>
    /\ UNCHANGED <<pkvars, spvars>>

\* lines 60-68: a sample size in [0, 1] is the relative size
RdRelativeSample ==
    /\ rd_pc = "sample"
    /\ query.has_sample
    /\ query.sample_num >= 0
    /\ ~(query.sample_num > query.sample_den)
    /\ size' = DoubleOfRatio(query.sample_num, query.sample_den)
    /\ rd_pc' = "limit"
    /\ UNCHANGED <<data, query, settings, read_threads, date_condition, date_answers,
                   prescan_ranges, rd_parts,
                   requested_count, total_count, rd_i, sampling_column_value_limit,
                   filter_function, parts_with_ranges, rd_res, error, events>>
    /\ UNCHANGED <<pkvars, spvars>>

\* lines 68-74: a sample size above 1 is a number of rows
RdAbsoluteSample ==
    /\ rd_pc = "sample"
    /\ query.has_sample
    /\ query.sample_num > query.sample_den
    /\ requested_count' = query.sample_num \div query.sample_den
    /\ total_count' = 0
    /\ rd_i' = 0
    /\ rd_pc' = "prescan"
    /\ UNCHANGED <<data, query, settings, read_threads, date_condition, date_answers,
                   prescan_ranges, rd_parts, size,
                   sampling_column_value_limit, filter_function, parts_with_ranges, rd_res,
                   error, events>>
    /\ UNCHANGED <<pkvars, spvars>>

\* lines 75-78: the preliminary index scan of the next part
RdPrescanCall ==
    /\ rd_pc = "prescan"
    /\ rd_i < Len(rd_parts)
    /\ CallMarkRanges(rd_parts[rd_i + 1])
    /\ rd_pc' = "prescan_call"
    /\ events' = Append(events, "prescan")
    /\ UNCHANGED <<data, query, settings, read_threads, date_condition, date_answers,
                   prescan_ranges, rd_parts, size,
                   requested_count, total_count, rd_i, sampling_column_value_limit,
                   filter_function, parts_with_ranges, rd_res, error>>
    /\ UNCHANGED spvars

\* lines 78-82: its marks are counted
RdPrescanReturn ==
    /\ rd_pc = "prescan_call"
    /\ pk_pc = "done"
    /\ prescan_ranges' = Append(prescan_ranges, pk_res)
    /\ total_count' = SizeAdd(total_count, SumRanges(pk_res))
    /\ rd_i' = rd_i + 1
    /\ rd_pc' = "prescan"
    /\ pk_pc' = "idle"
    /\ UNCHANGED <<data, query, settings, read_threads, date_condition, date_answers,
                   rd_parts, size,
                   requested_count, sampling_column_value_limit, filter_function,
                   parts_with_ranges, rd_res, error, events>>
    /\ UNCHANGED <<index, key_condition, min_marks_for_seek, coarse_index_granularity,
                   pk_res, ranges_stack, probed, hits, misses>>
    /\ UNCHANGED spvars

\* lines 75, 83-88: rows of the scan, and the relative size min(1, requested /
\* total); requested >= 1, so a total of 0 gives +infinity and the size is 1
RdPrescanEnd ==
    /\ rd_pc = "prescan"
    /\ rd_i = Len(rd_parts)
    /\ LET rows == (total_count * data.index_granularity) % SizeMod
       IN  /\ total_count' = rows
           /\ size' = IF rows = 0 \/ requested_count >= rows
                      THEN DoubleOfRatio(1, 1)
                      ELSE DoubleOfRatio(requested_count, rows)
    /\ rd_pc' = "limit"
    /\ UNCHANGED <<data, query, settings, read_threads, date_condition, date_answers,
                   prescan_ranges, rd_parts,
                   requested_count, rd_i, sampling_column_value_limit, filter_function,
                   parts_with_ranges, rd_res, error, events>>
    /\ UNCHANGED <<pkvars, spvars>>

\* lines 90-102: the sampling column is not of an unsigned integer type
RdIllegalType ==
    /\ rd_pc = "limit"
    /\ data.sampling_type \notin UnsignedTypes
    /\ error' = "ILLEGAL_TYPE_OF_COLUMN_FOR_FILTER"
    /\ rd_pc' = "error"
    /\ UNCHANGED <<data, query, settings, read_threads, date_condition, date_answers,
                   prescan_ranges, rd_parts, size,
                   requested_count, total_count, rd_i, sampling_column_value_limit,
                   filter_function, parts_with_ranges, rd_res, events>>
    /\ UNCHANGED <<pkvars, spvars>>

\* lines 90-108: addCondition answers false, the column is not in the key
RdNotInPk ==
    /\ rd_pc = "limit"
    /\ data.sampling_type \in UnsignedTypes
    /\ ~data.sampling_in_pk
    /\ sampling_column_value_limit' \in SamplingLimits(size, data.sampling_type)
    /\ error' = "ILLEGAL_COLUMN"
    /\ events' = Append(events, "addCondition_refused")
    /\ rd_pc' = "error"
    /\ UNCHANGED <<data, query, settings, read_threads, date_condition, date_answers,
                   prescan_ranges, rd_parts, size,
                   requested_count, total_count, rd_i, filter_function, parts_with_ranges,
                   rd_res>>
    /\ UNCHANGED <<pkvars, spvars>>

\* lines 90-128: the limit is added to key_condition and the row filter
\* sampling_expression <= limit is built.  The tightened condition is no
\* longer always true, and the keys that satisfy it are among those that did.
RdAddCondition ==
    /\ rd_pc = "limit"
    /\ data.sampling_type \in UnsignedTypes
    /\ data.sampling_in_pk
    /\ \E limit \in SamplingLimits(size, data.sampling_type) :
          /\ sampling_column_value_limit' = limit
          /\ \E sat \in SUBSET key_condition.sat :
                key_condition' =
                    [key_condition EXCEPT
                        !.always_true = FALSE,
                        !.sat = sat,
                        !.added = Append(@, RightBounded("sampling_expression", limit))]
          /\ filter_function' = Expr("lessOrEquals", "sampling_expression", limit)
    /\ rd_i' = 0
    /\ rd_pc' = "ranges"
    /\ events' = Append(events, "addCondition")
    /\ UNCHANGED <<data, query, settings, read_threads, date_condition, date_answers,
                   prescan_ranges, rd_parts, size,
                   requested_count, total_count, parts_with_ranges, rd_res, error>>
    /\ UNCHANGED <<index, min_marks_for_seek, coarse_index_granularity, pk_res,
                   ranges_stack, pk_pc, probed, hits, misses>>
    /\ UNCHANGED spvars

\* lines 149-153: the index scan of the next part
RdRangesCall ==
    /\ rd_pc = "ranges"
    /\ rd_i < Len(rd_parts)
    /\ CallMarkRanges(rd_parts[rd_i + 1])
    /\ rd_pc' = "ranges_call"
    /\ events' = Append(events, "ranges")
    /\ UNCHANGED <<data, query, settings, read_threads, date_condition, date_answers,
                   prescan_ranges, rd_parts, size,
                   requested_count, total_count, rd_i, sampling_column_value_limit,
                   filter_function, parts_with_ranges, rd_res, error>>
    /\ UNCHANGED spvars

\* line 155
KeepPart(ranges) == ranges # <<>>

\* lines 153-165: the part is kept when its range list is not empty
RdRangesReturn ==
    /\ rd_pc = "ranges_call"
    /\ pk_pc = "done"
    /\ parts_with_ranges' =
          IF KeepPart(pk_res)
          THEN Append(parts_with_ranges, [name |-> rd_parts[rd_i + 1].name, ranges |-> pk_res])
          ELSE parts_with_ranges
    /\ rd_i' = rd_i + 1
    /\ rd_pc' = "ranges"
    /\ pk_pc' = "idle"
    /\ UNCHANGED <<data, query, settings, read_threads, date_condition, date_answers,
                   prescan_ranges, rd_parts, size,
                   requested_count, total_count, sampling_column_value_limit,
                   filter_function, rd_res, error, events>>
    /\ UNCHANGED <<index, key_condition, min_marks_for_seek, coarse_index_granularity,
                   pk_res, ranges_stack, probed, hits, misses>>
    /\ UNCHANGED spvars

\* lines 149, 170-200: the ranges are handed to the spreader the query asks for
RdSpread ==
    /\ rd_pc = "ranges"
    /\ rd_i = Len(rd_parts)
    /\ sp_parts' = parts_with_ranges
    /\ threads' = read_threads
    /\ use_uncompressed_cache' = settings.use_uncompressed_cache
    /\ parts' = <<>>
    /\ sum_marks_in_parts' = <<>>
    /\ sum_marks' = 0
    /\ min_marks_per_thread' = 0
    /\ sp_i' = 0
    /\ need_marks' = 0
    /\ streams' = <<>>
    /\ sp_res' = <<>>
    /\ sp_pc' = IF query.final THEN "call_final" ELSE "call"
    /\ rd_pc' = "spread"
    /\ events' = Append(events, "spread")
    /\ UNCHANGED min_marks_for_concurrent_read
    /\ UNCHANGED <<data, query, settings, read_threads, date_condition, date_answers,
                   prescan_ranges, rd_parts, size,
                   requested_count, total_count, rd_i, sampling_column_value_limit,
                   filter_function, parts_with_ranges, rd_res, error>>
    /\ UNCHANGED pkvars

\* the sampling filter put on the streams of the normal plan only
WrapStreams_NotFinal(streams_, filter, has_sample, final) ==
    IF has_sample /\ ~final
    THEN [k \in 1 .. Len(streams_) |->
             FilterBlockInputStream(ExpressionBlockInputStream(streams_[k], filter), filter)]
    ELSE streams_

\* lines 202-211: filter_expression evaluates filter_function, and the filter
\* column is the column of filter_function
WrapStreams(streams_, filter, has_sample, final) ==
    IF has_sample
    THEN [k \in 1 .. Len(streams_) |->
             FilterBlockInputStream(ExpressionBlockInputStream(streams_[k], filter), filter)]
    ELSE streams_

\* lines 181-213: the spreader returned
RdReturn ==
    /\ rd_pc = "spread"
    /\ sp_pc \in {"done", "done_final"}
    /\ rd_res' = WrapStreams(sp_res, filter_function, query.has_sample, query.final)
    /\ rd_pc' = "done"
    /\ sp_pc' = "idle"
    /\ UNCHANGED <<data, query, settings, read_threads, date_condition, date_answers,
                   prescan_ranges, rd_parts, size,
                   requested_count, total_count, rd_i, sampling_column_value_limit,
                   filter_function, parts_with_ranges, error, events>>
    /\ UNCHANGED <<sp_parts, threads, use_uncompressed_cache, min_marks_for_concurrent_read,
                   parts, sum_marks_in_parts, sum_marks, min_marks_per_thread, sp_i,
                   need_marks, streams, sp_res>>
    /\ UNCHANGED pkvars

\* lines 297, 324: the spreader threw, and read does not catch
RdSpreadThrow ==
    /\ rd_pc = "spread"
    /\ sp_pc \in {"unexpected_end_of_ranges", "couldnt_spread_marks"}
    /\ error' = "LOGICAL_ERROR"
    /\ rd_pc' = "error"
    /\ UNCHANGED <<data, query, settings, read_threads, date_condition, date_answers,
                   prescan_ranges, rd_parts, size,
                   requested_count, total_count, rd_i, sampling_column_value_limit,
                   filter_function, parts_with_ranges, rd_res, events>>
    /\ UNCHANGED <<pkvars, spvars>>

RdNext ==
    \/ RdSelectParts \/ RdNoSample \/ RdNegativeSample \/ RdRelativeSample
    \/ RdAbsoluteSample \/ RdPrescanCall \/ RdPrescanReturn \/ RdPrescanEnd
    \/ RdIllegalType \/ RdNotInPk \/ RdAddCondition \/ RdRangesCall \/ RdRangesReturn
    \/ RdSpread \/ RdReturn \/ RdSpreadThrow

\* the state of read while it is not running
RdIdle ==
    /\ data = [parts |-> <<>>, index_granularity |-> 1, sampling_type |-> "UInt8",
               sampling_in_pk |-> TRUE]
    /\ query = [has_sample |-> FALSE, sample_num |-> 0, sample_den |-> 1, final |-> FALSE]
    /\ settings = [use_uncompressed_cache |-> FALSE]
    /\ read_threads = 1
    /\ date_condition = [sat |-> {}]
    /\ date_answers = <<>>
    /\ prescan_ranges = <<>>
    /\ rd_parts = <<>>
    /\ size = Double(<<>>, 0)
    /\ requested_count = 0
    /\ total_count = 0
    /\ rd_i = 0
    /\ sampling_column_value_limit = <<>>
    /\ filter_function = NoExpr
    /\ parts_with_ranges = <<>>
    /\ rd_res = <<>>
    /\ rd_pc = "idle"
    /\ error = ""
    /\ events = <<>>

\* The parts of a table: a part of n marks has the keys 0 .. n - 1 in its
\* index, one per mark, and a date envelope; the parts are listed in one fixed
\* order of their shapes (the name of a part is its place in data_parts).
PartShapes ==
    {[index |-> [m \in 1 .. n |-> m - 1], left_date |-> l, right_date |-> r] :
        n \in 0 .. MaxReadMarks, l \in Dates, r \in Dates}

ShapeCode(shape) ==
    (Len(shape.index) * (MaxDate + 1) + shape.left_date) * (MaxDate + 1) + shape.right_date

DataParts ==
    UNION {{[k \in 1 .. n |-> [name |-> k, index |-> sh[k].index,
                               left_date |-> sh[k].left_date,
                               right_date |-> sh[k].right_date]] :
               sh \in {s \in [1 .. n -> {p \in PartShapes : p.left_date <= p.right_date}] :
                          \A k \in 1 .. n - 1 : ShapeCode(s[k]) <= ShapeCode(s[k + 1])}} :
              n \in 0 .. MaxReadParts}

\* the sample clauses: none, -1, 1/2, 1 and MaxSample rows
Queries ==
    {[has_sample |-> s[1], sample_num |-> s[2], sample_den |-> s[3], final |-> f] :
        s \in {<<FALSE, 0, 1>>, <<TRUE, -1, 1>>, <<TRUE, 1, 2>>, <<TRUE, 1, 1>>,
               <<TRUE, MaxSample, 1>>},
        f \in BOOLEAN}

\* the sampling column of a table: its type, and whether the key has it
Tables ==
    {[sampling_type |-> t, sampling_in_pk |-> TRUE] : t \in {"UInt8", "UInt64", "Int32"}}
    \cup {[sampling_type |-> "UInt8", sampling_in_pk |-> FALSE]}

\* read throws before it looks at the parts' indexes (lines 66, 102, 108)
ThrowsEarly(q, t) ==
    q.has_sample /\ (q.sample_num < 0 \/ t.sampling_type \notin UnsignedTypes
                     \/ ~t.sampling_in_pk)

\* The calls of read.  Calls that differ only in a value the run never reads
\* are listed once: the sampling column is read at lines 90-108 only, the
\* granularity at line 83 only (lines 15-16 give the same marks for every
\* granularity), threads by spreadMarkRangesAmongThreads only.
ReadCalls ==
    {c \in [query : Queries, table : Tables, index_granularity : 1 .. MaxGranularity,
            threads : 1 .. MaxReadThreads] :
        /\ (~c.query.has_sample \/ c.query.sample_num < 0)
              => c.table = [sampling_type |-> "UInt8", sampling_in_pk |-> TRUE]
        /\ ~(c.query.has_sample /\ c.query.sample_num > c.query.sample_den)
              => c.index_granularity = 1
        /\ (c.query.final \/ ThrowsEarly(c.query, c.table)) => c.threads = 1
        /\ ThrowsEarly(c.query, c.table) => ~c.query.final}

\* the key conditions of a query: always true, or the set of keys it selects
ReadConditions ==
    {[always_true |-> TRUE, sat |-> Keys, conservative |-> TRUE, added |-> <<>>]}
    \cup {[always_true |-> FALSE, sat |-> s, conservative |-> TRUE, added |-> <<>>] :
             s \in {{}} \cup {{k} : k \in 0 .. MaxReadMarks - 1}}

\* the date condition of a query selects day 0; a part without that day is
\* selected or not (any answer of mayBeTrueInRange)
DateConditions == {[sat |-> {0}]}

\* read is called on a constructed executor (lines 13-20)
RdInit ==
    /\ \E ps \in DataParts, c \in ReadCalls :
          /\ data = [parts |-> ps, index_granularity |-> c.index_granularity,
                     sampling_type |-> c.table.sampling_type,
                     sampling_in_pk |-> c.table.sampling_in_pk]
          /\ query = c.query
          /\ read_threads = c.threads
          /\ min_marks_for_seek = MarksForRows(min_rows_for_seek, c.index_granularity)
          /\ min_marks_for_concurrent_read =
                MarksForRows(min_rows_for_concurrent_read, c.index_granularity)
    /\ settings = [use_uncompressed_cache |-> TRUE]
    /\ key_condition \in ReadConditions
    /\ date_condition \in DateConditions
    /\ date_answers = <<>>
    /\ prescan_ranges = <<>>
    /\ coarse_index_granularity = read_coarse_index_granularity
    /\ rd_parts = <<>>
    /\ size = Double(<<>>, 0)
    /\ requested_count = 0
    /\ total_count = 0
    /\ rd_i = 0
    /\ sampling_column_value_limit = <<>>
    /\ filter_function = NoExpr
    /\ parts_with_ranges = <<>>
    /\ rd_res = <<>>
    /\ rd_pc = "start"
    /\ error = ""
    /\ events = <<>>
    /\ index = <<>>
    /\ pk_res = <<>>
    /\ ranges_stack = <<>>
    /\ pk_pc = "idle"
    /\ probed = FALSE
    /\ hits = <<>>
    /\ misses = {}
    /\ sp_parts = <<>>
    /\ threads = 1
    /\ use_uncompressed_cache = FALSE
    /\ parts = <<>>
    /\ sum_marks_in_parts = <<>>
    /\ sum_marks = 0
    /\ min_marks_per_thread = 0
    /\ sp_i = 0
    /\ need_marks = 0
    /\ streams = <<>>
    /\ sp_res = <<>>
    /\ sp_pc = "idle"

Next == RdNext \/ PkNext \/ SpNext \/ SpFinal

Spec == RdInit /\ [][Next]_vars

\* the state of the spreader while it is not running
SpIdle ==
    /\ sp_parts = <<>>
    /\ threads = 1
    /\ use_uncompressed_cache = FALSE
    /\ min_marks_for_concurrent_read = 0
    /\ parts = <<>>
    /\ sum_marks_in_parts = <<>>
    /\ sum_marks = 0
    /\ min_marks_per_thread = 0
    /\ sp_i = 0
    /\ need_marks = 0
    /\ streams = <<>>
    /\ sp_res = <<>>
    /\ sp_pc = "idle"

SpInit ==
    /\ sp_parts \in PartLists
    /\ threads \in 1 .. MaxThreads
    /\ use_uncompressed_cache = TRUE
    /\ min_marks_for_concurrent_read \in 0 .. MaxConcurrentRead
    /\ parts = <<>>
    /\ sum_marks_in_parts = <<>>
    /\ sum_marks = 0
    /\ min_marks_per_thread = 0
    /\ sp_i = 0
    /\ need_marks = 0
    /\ streams = <<>>
    /\ sp_res = <<>>
    /\ sp_pc = "call"

InitSpread == SpInit /\ PkIdle /\ RdIdle

\* spreadMarkRangesAmongThreads called on the wider lists of parts
SpWideInit ==
    /\ sp_parts \in WidePartLists
    /\ threads \in 1 .. MaxThreads
    /\ use_uncompressed_cache = TRUE
    /\ min_marks_for_concurrent_read \in 0 .. MaxConcurrentRead
    /\ parts = <<>>
    /\ sum_marks_in_parts = <<>>
    /\ sum_marks = 0
    /\ min_marks_per_thread = 0
    /\ sp_i = 0
    /\ need_marks = 0
    /\ streams = <<>>
    /\ sp_res = <<>>
    /\ sp_pc = "call"

InitWide == SpWideInit /\ PkIdle /\ RdIdle

SpecSpreadWide == InitWide /\ [][SpNext]_vars

\* the scenario of three parts of one range of 100 marks each and 4 threads,
\* under min_marks_for_concurrent_read = 0 and the next thresholds
SpScenarioInit ==
    /\ sp_parts = [k \in 1 .. 3 |-> [name |-> k, ranges |-> <<MarkRange(0, 100)>>]]
    /\ threads = 4
    /\ use_uncompressed_cache = TRUE
    /\ min_marks_for_concurrent_read \in 0 .. MaxConcurrentRead
    /\ parts = <<>>
    /\ sum_marks_in_parts = <<>>
    /\ sum_marks = 0
    /\ min_marks_per_thread = 0
    /\ sp_i = 0
    /\ need_marks = 0
    /\ streams = <<>>
    /\ sp_res = <<>>
    /\ sp_pc = "call"

InitScenario == SpScenarioInit /\ PkIdle /\ RdIdle

SpecScenario == InitScenario /\ [][SpNext]_vars

SpFinalInit ==
    /\ sp_parts \in PartLists
    /\ threads \in 1 .. MaxThreads
    /\ use_uncompressed_cache \in BOOLEAN
    /\ min_marks_for_concurrent_read \in 0 .. MaxConcurrentRead
    /\ parts = <<>>
    /\ sum_marks_in_parts = <<>>
    /\ sum_marks = 0
    /\ min_marks_per_thread = 0
    /\ sp_i = 0
    /\ need_marks = 0
    /\ streams = <<>>
    /\ sp_res = <<>>
    /\ sp_pc = "call_final"

InitFinal == SpFinalInit /\ PkIdle /\ RdIdle

SpecFinal == InitFinal /\ [][SpFinal]_vars

SpecSpread == InitSpread /\ [][SpNext]_vars

InitPk == PkInit /\ SpIdle /\ RdIdle

SpecPk == InitPk /\ [][PkNext]_vars

\* markRangesFromPkRange runs in the calling thread: while a statement is left
\* to run (lines 408-463), it runs
SpecPkFair == InitPk /\ [][PkNext]_vars /\ WF_vars(PkNext)

\* ------------------------------------------------------------ claims
\* Mark m holds a key that satisfies the condition: its key interval runs from
\* its own index key to the index key of the next mark (no upper bound for the
\* last mark).
MarkMaySatisfy(m) ==
    \E k \in key_condition.sat :
        /\ index[m + 1] <= k
        /\ (m + 1 < marks_count => k <= index[m + 2])

Covered(res, m) == \E i \in 1 .. Len(res) : res[i].begin <= m /\ m < res[i].end

\* C1: coverage of markRangesFromPkRange: with a non-empty non-decreasing
\* index, coarse_index_granularity >= 2 and a conservative condition, every
\* mark whose key interval holds a satisfying key lies in a returned range.
C1_Coverage ==
    (/\ pk_pc = "done"
     /\ marks_count >= 1
     /\ coarse_index_granularity >= 2
     /\ key_condition.conservative)
    => \A m \in 0 .. marks_count - 1 : MarkMaySatisfy(m) => Covered(pk_res, m)

\* a descent that pruned: some mark satisfies, some other mark is left out
C1_Witness ==
    /\ pk_pc = "done"
    /\ marks_count >= 3
    /\ coarse_index_granularity >= 2
    /\ key_condition.conservative
    /\ ~key_condition.always_true
    /\ probed
    /\ \E m \in 0 .. marks_count - 1 : MarkMaySatisfy(m) /\ Covered(pk_res, m)
    /\ \E m \in 0 .. marks_count - 1 : ~Covered(pk_res, m)

\* C4: the list markRangesFromPkRange returns is sorted by begin, its ranges
\* do not overlap, and consecutive ranges are more than min_marks_for_seek
\* marks apart.
C4_Shape ==
    pk_pc = "done" =>
        \A i \in 1 .. Len(pk_res) - 1 :
            /\ pk_res[i].begin < pk_res[i + 1].begin
            /\ pk_res[i].end <= pk_res[i + 1].begin
            /\ pk_res[i + 1].begin - pk_res[i].end > min_marks_for_seek

\* two ranges were returned under a positive threshold: single-mark hits were
\* kept apart across a gap wider than min_marks_for_seek
C4_Witness ==
    /\ pk_pc = "done"
    /\ ~key_condition.always_true
    /\ Len(pk_res) >= 2
    /\ min_marks_for_seek >= 1

\* C8: with alwaysTrue() the result is exactly [0, marks_count) and no probe
\* is asked.
C8_AlwaysTrue ==
    (pk_pc = "done" /\ key_condition.always_true)
    => (pk_res = <<MarkRange(0, marks_count)>> /\ ~probed)

C8_Witness ==
    /\ pk_pc = "done"
    /\ key_condition.always_true
    /\ marks_count >= 2
    /\ pk_res = <<MarkRange(0, marks_count)>>

\* ------------------------------------------------------------ claims on the spreader
\* the part readers of one element of the returned vector
Readers(stream) == IF stream.kind = "MergeTree" THEN <<stream>> ELSE stream.inputs

RECURSIVE EmittedMarks(_)
EmittedMarks(res) ==
    IF res = <<>> THEN 0
    ELSE LET rs == Readers(Back(res))
         IN  SumSeq([k \in 1 .. Len(rs) |-> SumRanges(rs[k].ranges)]) + EmittedMarks(PopBack(res))

InputSumMarks == SumSeq([k \in 1 .. Len(sp_parts) |-> SumRanges(sp_parts[k].ranges)])

AllRangesNonEmpty ==
    \A k \in 1 .. Len(sp_parts) :
        \A j \in 1 .. Len(sp_parts[k].ranges) :
            sp_parts[k].ranges[j].end > sp_parts[k].ranges[j].begin

\* the worker slots (elements of the returned vector) that read part p
WorkersOf(p) ==
    {w \in 1 .. Len(sp_res) :
        \E k \in 1 .. Len(Readers(sp_res[w])) : Readers(sp_res[w])[k].part = p}

ReadersOfIn(p, w) ==
    {k \in 1 .. Len(Readers(sp_res[w])) : Readers(sp_res[w])[k].part = p}

\* C2: when spreadMarkRangesAmongThreads returns, the marks of the ranges handed
\* to all part readers add up to the marks of the input.
C2_MarkConservation ==
    sp_pc = "done" => EmittedMarks(sp_res) = InputSumMarks

\* a return after a part was cut across two workers
C2_Witness ==
    /\ sp_pc = "done"
    /\ Len(sp_res) >= 2
    /\ InputSumMarks >= 4
    /\ \E p \in 1 .. Len(sp_parts) : Cardinality(WorkersOf(sp_parts[p].name)) >= 2

\* C3: with input ranges of end > begin the loop leaves no part after at most
\* threads worker slots, and neither logical error is raised.
C3_NoLogicalError ==
    AllRangesNonEmpty =>
        /\ sp_pc \notin {"couldnt_spread_marks", "unexpected_end_of_ranges"}
        /\ sp_i <= threads
        /\ (sp_pc = "for" /\ sp_i = threads) => parts = <<>>

\* every worker slot was used and the parts are gone
C3_Witness ==
    /\ AllRangesNonEmpty
    /\ sp_pc = "done"
    /\ threads >= 2
    /\ sp_i = threads
    /\ Len(sp_parts) >= 2
    /\ parts = <<>>

\* C7 as stated: each part is read in one worker slot only, and every range
\* handed to a reader is a whole input range of the part.
C7_OneWorkerPerPart ==
    sp_pc = "done" =>
        \A p \in 1 .. Len(sp_parts) :
            /\ Cardinality(WorkersOf(sp_parts[p].name)) = 1
            /\ \A w \in WorkersOf(sp_parts[p].name) : \A k \in ReadersOfIn(sp_parts[p].name, w) :
                  \A j \in 1 .. Len(Readers(sp_res[w])[k].ranges) :
                      \E n \in 1 .. Len(sp_parts[p].ranges) :
                          Readers(sp_res[w])[k].ranges[j] = sp_parts[p].ranges[n]

\* C7 amended: each part that has a mark to read is read in one or more
\* consecutive worker slots, by exactly one part reader in each of them, and
\* every range handed to a reader lies inside an input range of the part (a
\* part is cut at a whole mark, possibly inside a range).
C7_ConsecutiveWorkers ==
    sp_pc = "done" =>
        \A p \in 1 .. Len(sp_parts) :
            /\ SumRanges(sp_parts[p].ranges) > 0 => WorkersOf(sp_parts[p].name) # {}
            /\ \A a, b \in WorkersOf(sp_parts[p].name) : \A w \in a .. b : w \in WorkersOf(sp_parts[p].name)
            /\ \A w \in WorkersOf(sp_parts[p].name) : Cardinality(ReadersOfIn(sp_parts[p].name, w)) = 1
            /\ \A w \in WorkersOf(sp_parts[p].name) : \A k \in ReadersOfIn(sp_parts[p].name, w) :
                  \A j \in 1 .. Len(Readers(sp_res[w])[k].ranges) :
                      \E n \in 1 .. Len(sp_parts[p].ranges) :
                          /\ sp_parts[p].ranges[n].begin <= Readers(sp_res[w])[k].ranges[j].begin
                          /\ Readers(sp_res[w])[k].ranges[j].end <= sp_parts[p].ranges[n].end

\* a part of two ranges read by two worker slots, cut inside a range
C7_Witness ==
    /\ sp_pc = "done"
    /\ \E p \in 1 .. Len(sp_parts) :
          /\ Len(sp_parts[p].ranges) >= 2
          /\ Cardinality(WorkersOf(sp_parts[p].name)) >= 2
          /\ \E w \in WorkersOf(sp_parts[p].name) : \E k \in ReadersOfIn(sp_parts[p].name, w) :
                \E j \in 1 .. Len(Readers(sp_res[w])[k].ranges) :
                    \A n \in 1 .. Len(sp_parts[p].ranges) :
                        Readers(sp_res[w])[k].ranges[j] # sp_parts[p].ranges[n]

\* C10: the returned vector has at most threads elements; with one thread and
\* marks to read it has exactly one, a part reader or a concatenation, whose
\* readers read every input part in full.
C10_StreamCount ==
    sp_pc = "done" =>
        /\ Len(sp_res) <= threads
        /\ (threads = 1 /\ InputSumMarks > 0) =>
              /\ Len(sp_res) = 1
              /\ sp_res[1].kind \in {"MergeTree", "Concat"}
              /\ Len(Readers(sp_res[1])) = Len(sp_parts)
              /\ \A p \in 1 .. Len(sp_parts) :
                    \E k \in 1 .. Len(Readers(sp_res[1])) :
                        /\ Readers(sp_res[1])[k].kind = "MergeTree"
                        /\ Readers(sp_res[1])[k].part = sp_parts[p].name
                        /\ Readers(sp_res[1])[k].ranges = sp_parts[p].ranges

\* one thread, two parts, one of them of two ranges: a single concatenation
C10_Witness ==
    /\ sp_pc = "done"
    /\ threads = 1
    /\ Len(sp_parts) >= 2
    /\ \E p \in 1 .. Len(sp_parts) : Len(sp_parts[p].ranges) >= 2
    /\ Len(sp_res) = 1
    /\ sp_res[1].kind = "Concat"

\* ------------------------------------------------------------ claims on the FINAL spreader
\* C6: spreadMarkRangesAmongThreadsFinal returns no stream for no part, the
\* positive-sign filter over the only part's stream for one part, and for two
\* or more parts one collapsing merge over one stream per part, each reading
\* the whole range list of its part.
C6_FinalShape ==
    sp_pc = "done_final" =>
        /\ Len(sp_res) <= 1
        /\ Len(sp_parts) = 0 => sp_res = <<>>
        /\ Len(sp_parts) = 1 =>
              /\ Len(sp_res) = 1
              /\ sp_res[1].kind = "Filter"
              /\ sp_res[1].arg = sign_filter_column
              /\ Len(sp_res[1].inputs) = 1
              /\ sp_res[1].inputs[1].kind = "Expression"
              /\ sp_res[1].inputs[1].arg = sign_filter_expression
              /\ sp_res[1].inputs[1].inputs[1].kind = "Expression"
              /\ sp_res[1].inputs[1].inputs[1].inputs[1].kind = "MergeTree"
              /\ sp_res[1].inputs[1].inputs[1].inputs[1].part = sp_parts[1].name
              /\ sp_res[1].inputs[1].inputs[1].inputs[1].ranges = sp_parts[1].ranges
        /\ Len(sp_parts) >= 2 =>
              /\ Len(sp_res) = 1
              /\ sp_res[1].kind = "CollapsingFinal"
              /\ Len(sp_res[1].inputs) = Len(sp_parts)
              /\ \A k \in 1 .. Len(sp_parts) :
                    /\ sp_res[1].inputs[k].kind = "Expression"
                    /\ Len(sp_res[1].inputs[k].inputs) = 1
                    /\ sp_res[1].inputs[k].inputs[1].kind = "MergeTree"
                    /\ sp_res[1].inputs[k].inputs[1].part = sp_parts[k].name
                    /\ sp_res[1].inputs[k].inputs[1].ranges = sp_parts[k].ranges

\* two parts, one of two ranges, and several threads: a single collapsing merge
C6_Witness ==
    /\ sp_pc = "done_final"
    /\ threads >= 2
    /\ Len(sp_parts) = 2
    /\ Len(sp_parts[1].ranges) >= 2
    /\ Len(sp_res) = 1
    /\ sp_res[1].kind = "CollapsingFinal"

\* ------------------------------------------------------------ claims on read
\* the place of an event in the steps read took, 0 when it did not happen
FirstEvent(e) ==
    IF \E k \in 1 .. Len(events) : events[k] = e
    THEN CHOOSE k \in 1 .. Len(events) : events[k] = e /\ \A j \in 1 .. k - 1 : events[j] # e
    ELSE 0

SamplingFilter == Expr("lessOrEquals", "sampling_expression", sampling_column_value_limit)

\* C5: sampling consistency: when the query has a sample clause and read
\* returns, every returned stream (normal plan and FINAL plan) is the row
\* filter sampling_expression <= limit over a stream of the spreader, and
\* limit is the one value added to key_condition by addCondition, right-bounded
\* and inclusive, before any index scan whose ranges feed the streams.
C5_SamplingConsistency ==
    (rd_pc = "done" /\ query.has_sample) =>
        /\ key_condition.added =
              <<RightBounded("sampling_expression", sampling_column_value_limit)>>
        /\ Len(rd_res) = Len(sp_res)
        /\ \A k \in 1 .. Len(rd_res) :
              /\ rd_res[k].kind = "Filter"
              /\ rd_res[k].arg = SamplingFilter
              /\ rd_res[k].inputs =
                    <<ExpressionBlockInputStream(sp_res[k], SamplingFilter)>>
        /\ FirstEvent("addCondition") > 0
        /\ \A k \in 1 .. Len(events) :
              events[k] \in {"ranges", "spread"} => FirstEvent("addCondition") < k
        /\ sp_parts = parts_with_ranges

\* read returned two sampled streams of the normal plan after a preliminary
\* scan (an absolute sample size) that ran before addCondition
C5_Witness ==
    /\ rd_pc = "done"
    /\ query.has_sample
    /\ ~query.final
    /\ Len(rd_res) = 2
    /\ FirstEvent("prescan") > 0
    /\ FirstEvent("prescan") < FirstEvent("addCondition")

\* C9: a part with marks_count = 0 yields no ranges and is never emitted:
\* markRangesFromPkRange returns an empty list on an empty index, read keeps
\* no such part in parts_with_ranges, and every range that reaches a spreader
\* has end > begin.
C9_EmptyPartNeverEmitted ==
    /\ (pk_pc = "done" /\ marks_count = 0) => pk_res = <<>>
    /\ \A k \in 1 .. Len(parts_with_ranges) :
          data.parts[parts_with_ranges[k].name].index # <<>>
    /\ \A k \in 1 .. Len(sp_parts) :
          \A j \in 1 .. Len(sp_parts[k].ranges) :
             sp_parts[k].ranges[j].end > sp_parts[k].ranges[j].begin

\* C11: date pruning: after lines 36-50 the selected parts are exactly the
\* parts for which date_condition.mayBeTrueInRange answered true, in the order
\* of data_parts; when no part is selected read never enters
\* markRangesFromPkRange, throws only for an invalid sample clause and returns
\* an empty vector, in both plans.
C11_DatePruning ==
    rd_pc \notin {"idle", "start"} =>
        /\ Len(date_answers) = Len(data.parts)
        /\ \A k \in 1 .. Len(data.parts) :
              date_answers[k] <=> \E j \in 1 .. Len(rd_parts) : rd_parts[j] = data.parts[k]
        /\ \A j \in 1 .. Len(rd_parts) - 1 : rd_parts[j].name < rd_parts[j + 1].name
        /\ rd_parts = <<>> =>
              /\ pk_pc = "idle"
              /\ FirstEvent("prescan") = 0
              /\ FirstEvent("ranges") = 0
              /\ rd_pc = "error" =>
                    ThrowsEarly(query, [sampling_type |-> data.sampling_type,
                                        sampling_in_pk |-> data.sampling_in_pk])
              /\ rd_pc = "done" => rd_res = <<>>

\* every part of a table of two was pruned by date and read returned, for a
\* FINAL query with an absolute sample size
C11_Witness ==
    /\ rd_pc = "done"
    /\ Len(data.parts) = 2
    /\ rd_parts = <<>>
    /\ query.final
    /\ query.has_sample
    /\ query.sample_num > query.sample_den
    /\ rd_res = <<>>

\* the marks of the ranges the preliminary scan returned
RECURSIVE PrescanMarks(_)
PrescanMarks(scanned) ==
    IF scanned = <<>> THEN 0 ELSE PrescanMarks(PopBack(scanned)) + SumRanges(Back(scanned))

\* floor(min(1, requested / total) * M), computed on the integers
ExactLimit(requested, total, M) ==
    IF total = 0 \/ requested >= total THEN M
    ELSE BigDivSmall(BigMulSmall(M, requested, 0), total)

\* C12: absolute sample size: total is index_granularity times the marks of
\* the ranges the preliminary scan returned for every date-selected part under
\* the condition not yet tightened, and the cutoff is
\* floor(min(1, requested / total) * M), M the maximum of the sampling
\* column's type, with the relative size clamped to 1 when total is 0.
C12_AbsoluteSampleLimit ==
    (/\ query.has_sample
     /\ query.sample_num > query.sample_den
     /\ rd_pc \in {"ranges", "ranges_call", "spread", "done"}) =>
        /\ Len(prescan_ranges) = Len(rd_parts)
        /\ FirstEvent("prescan") = 0 \/ FirstEvent("prescan") < FirstEvent("addCondition")
        /\ requested_count = query.sample_num \div query.sample_den
        /\ total_count = data.index_granularity * PrescanMarks(prescan_ranges)
        /\ sampling_column_value_limit =
              ExactLimit(requested_count, total_count, SamplingColumnMax(data.sampling_type))

\* ------------------------------------------------------------ claims on the descent
\* the output the claim prescribes for a list of single-mark hits: a hit is
\* merged into the previous range iff it begins at most seek marks after it
RECURSIVE Coalesced(_, _)
Coalesced(hs, seek) ==
    IF hs = <<>> THEN <<>>
    ELSE LET prev == Coalesced(PopBack(hs), seek)
             r == Back(hs)
         IN  IF prev # <<>> /\ r.begin - Back(prev).end <= seek
             THEN [prev EXCEPT ![Len(prev)].end = r.end]
             ELSE Append(prev, r)

\* C13: exactness of coalescing: the output is the list of single-mark hits,
\* each merged into the previous range iff r.begin - prev.end <=
\* min_marks_for_seek; a mark that failed its own probe is covered only inside
\* a gap of at most min_marks_for_seek marks between two consecutive hits; with
\* threshold 0 a single hit [m, m+1) is the whole output; hits [5,6) and [7,8)
\* give [5,8) for threshold 2 and two ranges for threshold 0.
C13_CoalescingExact ==
    (pk_pc \in {"loop", "done"} /\ ~key_condition.always_true) =>
        /\ pk_res = Coalesced(hits, min_marks_for_seek)
        /\ \A m \in misses :
              Covered(pk_res, m) =>
                 \E i \in 1 .. Len(hits) - 1 :
                    /\ hits[i].end <= m /\ m < hits[i + 1].begin
                    /\ hits[i + 1].begin - hits[i].end <= min_marks_for_seek
        /\ (min_marks_for_seek = 0 /\ Len(hits) = 1) => pk_res = <<hits[1]>>
        /\ min_marks_for_seek = 2 =>
              AddMark(AddMark(<<>>, MarkRange(5, 6)), MarkRange(7, 8)) = <<MarkRange(5, 8)>>
        /\ min_marks_for_seek = 0 =>
              AddMark(AddMark(<<>>, MarkRange(5, 6)), MarkRange(7, 8))
                 = <<MarkRange(5, 6), MarkRange(7, 8)>>

\* two hits were merged over a mark that failed its own probe, under
\* threshold 2
C13_Witness ==
    /\ pk_pc = "done"
    /\ min_marks_for_seek = 2
    /\ Len(hits) >= 2
    /\ Len(pk_res) = 1
    /\ \E m \in misses : Covered(pk_res, m)

\* ------------------------------------------------------------ the 3 x 100 marks scenario
WorkerMarks(stream) ==
    SumSeq([k \in 1 .. Len(Readers(stream)) |-> SumRanges(Readers(stream)[k].ranges)])

\* C14 as stated: 3 parts of one range of 100 marks, 4 threads, threshold 0:
\* for every shuffle 4 worker streams come back, their marks total 300, no
\* worker has fewer than 25 marks, and at least one worker reads all 100 marks
\* of one input part.
C14_Scenario ==
    (sp_pc = "done" /\ min_marks_for_concurrent_read = 0) =>
        /\ Len(sp_res) = 4
        /\ EmittedMarks(sp_res) = 300
        /\ \A w \in 1 .. Len(sp_res) : WorkerMarks(sp_res[w]) >= 25
        /\ \E w \in 1 .. Len(sp_res) :
              \E k \in 1 .. Len(Readers(sp_res[w])) :
                 SumRanges(Readers(sp_res[w])[k].ranges) = 100

\* C14, amended: the run never throws; 4 worker streams come back, their marks
\* total 300, every worker has exactly 75 marks, and no worker reads a whole
\* part: every part is read by two consecutive workers.
C14_ScenarioEvenSplit ==
    /\ sp_pc \notin {"couldnt_spread_marks", "unexpected_end_of_ranges"}
    /\ (sp_pc = "done" /\ min_marks_for_concurrent_read = 0) =>
          /\ Len(sp_res) = 4
          /\ EmittedMarks(sp_res) = 300
          /\ \A w \in 1 .. Len(sp_res) : WorkerMarks(sp_res[w]) = 75
          /\ \A w \in 1 .. Len(sp_res) :
                \A k \in 1 .. Len(Readers(sp_res[w])) :
                   SumRanges(Readers(sp_res[w])[k].ranges) < 100
          /\ \A p \in 1 .. Len(sp_parts) :
                \E w \in 1 .. Len(sp_res) - 1 :
                   WorkersOf(sp_parts[p].name) = {w, w + 1}

C14_Witness ==
    /\ sp_pc = "done"
    /\ min_marks_for_concurrent_read = 0
    /\ threads = 4
    /\ InputSumMarks = 300
    /\ Len(sp_res) = 4

\* ------------------------------------------------------------ determinism
\* The run of spreadMarkRangesAmongThreads whose shuffle leaves the parts in
\* the order of the input, as a function: the slices (part, range list) of its
\* part readers, worker after worker.
Slice(reader) == [part |-> reader.part, ranges |-> reader.ranges]

\* lines 260-315 for one worker, from the parts still in the vector
RECURSIVE WorkerSlices(_, _, _)
WorkerSlices(ps, sums, need) ==
    IF ~(need > 0 /\ ps # <<>>) THEN [slices |-> <<>>, ps |-> ps, sums |-> sums]
    ELSE LET marks_in_part == Back(sums)
             adjusted == AdjustedNeed(need, marks_in_part)
             peeled == PeelRanges(Back(ps).ranges, <<>>, marks_in_part, adjusted)
             rest ==
                 IF marks_in_part <= adjusted
                 THEN WorkerSlices(PopBack(ps), PopBack(sums), SizeSub(adjusted, marks_in_part))
                 ELSE WorkerSlices([ps EXCEPT ![Len(ps)].ranges = peeled.ranges],
                                   [sums EXCEPT ![Len(ps)] = peeled.marks_in_part],
                                   peeled.need)
             taken ==
                 IF marks_in_part <= adjusted
                 THEN Slice(WholePartStream(Back(ps), FALSE))
                 ELSE [part |-> Back(ps).name, ranges |-> peeled.got]
         IN  [slices |-> <<taken>> \o rest.slices, ps |-> rest.ps, sums |-> rest.sums]

\* lines 254-321 for the workers i, i + 1, ...
RECURSIVE SlicesFrom(_, _, _, _)
SlicesFrom(ps, sums, i, per_thread) ==
    IF ~(i < threads /\ ps # <<>>) THEN <<>>
    ELSE LET w == WorkerSlices(ps, sums, per_thread)
         IN  w.slices \o SlicesFrom(w.ps, w.sums, i + 1, per_thread)

\* lines 228-252 without the shuffle, then the loop
ReferenceSlices ==
    LET ps == [k \in 1 .. Len(sp_parts) |->
                  [name |-> sp_parts[k].name, ranges |-> Reverse(sp_parts[k].ranges)]]
        sums == [k \in 1 .. Len(sp_parts) |-> SumRanges(ps[k].ranges)]
    IN  IF SumSeq(sums) > 0
        THEN SlicesFrom(ps, sums, 0, MinMarksPerThread(SumSeq(sums), threads))
        ELSE <<>>

\* the slices of the part readers of the returned vector
RECURSIVE Slices(_)
Slices(res) ==
    IF res = <<>> THEN <<>>
    ELSE Slices(PopBack(res))
         \o [k \in 1 .. Len(Readers(Back(res))) |-> Slice(Readers(Back(res))[k])]

Count(seq, x) == Cardinality({k \in 1 .. Len(seq) : seq[k] = x})

SameMultiset(a, b) ==
    /\ Len(a) = Len(b)
    /\ \A k \in 1 .. Len(a) : Count(a, a[k]) = Count(b, a[k])

\* the marks of a list of ranges
MarksOf(ranges) ==
    {m \in 0 .. MaxMarks + MaxPartMarks + MaxPartMarks :
        \E j \in 1 .. Len(ranges) : ranges[j].begin <= m /\ m < ranges[j].end}

\* C15 as stated: whatever order the shuffle picks, the run returns the same
\* multiset of (part, range list) slices: the one of the run whose shuffle
\* keeps the order of the input.
C15_SameSlicesForEveryShuffle ==
    (sp_pc = "done" /\ AllRangesNonEmpty) => SameMultiset(Slices(sp_res), ReferenceSlices)

\* C15, amended: whatever order the shuffle picks, the slices of a part cover
\* the same marks, those of its input ranges, each mark in one slice, and the
\* slices total as many marks as those of the run in input order; where the
\* parts are cut depends on the order.
C15_SameMarksForEveryShuffle ==
    (sp_pc = "done" /\ AllRangesNonEmpty) =>
        LET slices == Slices(sp_res)
            reference == ReferenceSlices
        IN  /\ \A p \in 1 .. Len(sp_parts) :
                  /\ \A m \in MarksOf(sp_parts[p].ranges) :
                        Cardinality({k \in 1 .. Len(slices) :
                            /\ slices[k].part = sp_parts[p].name
                            /\ m \in MarksOf(slices[k].ranges)}) = 1
                  /\ \A k \in 1 .. Len(slices) :
                        slices[k].part = sp_parts[p].name
                           => MarksOf(slices[k].ranges) \subseteq MarksOf(sp_parts[p].ranges)
            /\ SumSeq([k \in 1 .. Len(slices) |-> SumRanges(slices[k].ranges)])
                  = SumSeq([k \in 1 .. Len(reference) |-> SumRanges(reference[k].ranges)])

\* a run over two parts of different sizes whose slices are not those of the
\* run in input order
C15_Witness ==
    /\ sp_pc = "done"
    /\ AllRangesNonEmpty
    /\ Len(sp_parts) = 2
    /\ ~SameMultiset(Slices(sp_res), ReferenceSlices)

\* ------------------------------------------------------------ C16
\* the part readers handed out so far: those of the finished workers and
\* those of the worker being filled
ReadersSoFar ==
    Slices(sp_res)
    \o (IF sp_pc = "while" THEN [k \in 1 .. Len(streams) |-> Slice(streams[k])] ELSE <<>>)

\* the reader reads an input part whole (a part's name is its place in the input)
ReadsEntirePart(reader) == reader.ranges = sp_parts[reader.part].ranges

\* the part at place k of the working vector has lost marks to a partial take
PartlyConsumed(k) == parts[k].ranges # Reverse(sp_parts[parts[k].name].ranges)

\* C16: at every point of a run of spreadMarkRangesAmongThreads, a part of
\* which a portion was taken keeps at least min_marks_for_concurrent_read
\* marks, and every part reader handed out has at least
\* min_marks_for_concurrent_read marks unless it reads a whole input part
\* (which then has fewer marks than that); so both sides of a partial take
\* have at least min_marks_for_concurrent_read marks.
C16_MinimumSliceSize ==
    (sp_pc \in {"for", "while", "done", "couldnt_spread_marks"}) =>
        /\ \A k \in 1 .. Len(parts) :
              PartlyConsumed(k) =>
                  /\ sum_marks_in_parts[k] >= min_marks_for_concurrent_read
                  /\ SumRanges(parts[k].ranges) >= min_marks_for_concurrent_read
        /\ \A k \in 1 .. Len(ReadersSoFar) :
              \/ SumRanges(ReadersSoFar[k].ranges) >= min_marks_for_concurrent_read
              \/ ReadsEntirePart(ReadersSoFar[k])

\* a return under threshold 2 where a part was cut in two slices and another
\* part, of fewer than 2 marks, was read whole
C16_Witness ==
    /\ sp_pc = "done"
    /\ min_marks_for_concurrent_read = 2
    /\ \E k \in 1 .. Len(ReadersSoFar) :
          /\ ~ReadsEntirePart(ReadersSoFar[k])
          /\ SumRanges(ReadersSoFar[k].ranges) < SumRanges(sp_parts[ReadersSoFar[k].part].ranges)
    /\ \E k \in 1 .. Len(ReadersSoFar) :
          /\ ReadsEntirePart(ReadersSoFar[k])
          /\ SumRanges(ReadersSoFar[k].ranges) < min_marks_for_concurrent_read

\* ------------------------------------------------------------ C17
RangeLen(range) == range.end - range.begin

\* the range at the back of the stack passes its probe and has two or more
\* marks: lines 449-459 split it
SplitsNext ==
    /\ pk_pc = "loop"
    /\ ranges_stack # <<>>
    /\ TRUE \in MayBeTrueAnswers(Back(ranges_stack))
    /\ RangeLen(Back(ranges_stack)) >= 2

\* every interval the split of the range at the back of the stack pushes is
\* strictly shorter than that range
PushedShorter ==
    LET pushed == SplitRange(<<>>, Back(ranges_stack))
    IN  \A k \in 1 .. Len(pushed) : RangeLen(pushed[k]) < RangeLen(Back(ranges_stack))

\* C17: for an index of one mark or more, every coarse_index_granularity of 1
\* or more and every condition, markRangesFromPkRange eventually empties its
\* stack and returns, and every interval pushed by the split of a passing
\* range of two or more marks is strictly shorter than that range.
C17_DescentTerminates ==
    /\ (marks_count >= 1 /\ coarse_index_granularity >= 1) => <>(pk_pc = "done")
    /\ []((marks_count >= 1 /\ coarse_index_granularity >= 1 /\ SplitsNext) => PushedShorter)

\* ------------------------------------------------------------ C18
\* the ranges of a list go from left to right without overlap
LeftToRight(ranges) ==
    \A j, k \in 1 .. Len(ranges) :
        j < k => (ranges[j].begin < ranges[k].begin /\ ranges[j].end <= ranges[k].begin)

InsideInputRange(range, p) ==
    \E j \in 1 .. Len(sp_parts[p].ranges) :
        /\ sp_parts[p].ranges[j].begin <= range.begin
        /\ range.end <= sp_parts[p].ranges[j].end

\* C18: at every point of a run of spreadMarkRangesAmongThreads, the range
\* list of every part reader handed out goes from left to right without
\* overlap, each of its ranges lies inside an input range of its part, and
\* two readers of one part share no mark.
C18_OrderedExactPartition ==
    LET readers == ReadersSoFar
    IN  /\ \A k \in 1 .. Len(readers) :
              /\ LeftToRight(readers[k].ranges)
              /\ \A j \in 1 .. Len(readers[k].ranges) :
                    /\ readers[k].ranges[j].begin <= readers[k].ranges[j].end
                    /\ InsideInputRange(readers[k].ranges[j], readers[k].part)
        /\ \A k, l \in 1 .. Len(readers) :
              (k # l /\ readers[k].part = readers[l].part)
                 => MarksOf(readers[k].ranges) \cap MarksOf(readers[l].ranges) = {}

\* a return where two parts were cut: of one a reader has a portion of two
\* ranges and a later reader the rest, of the other a reader has a portion
\* and a later reader the whole of what was left, two ranges
C18_Witness ==
    /\ sp_pc = "done"
    /\ \E k, l \in 1 .. Len(ReadersSoFar) :
          /\ k < l
          /\ ReadersSoFar[k].part = ReadersSoFar[l].part
          /\ Len(ReadersSoFar[k].ranges) >= 2
    /\ \E k, l \in 1 .. Len(ReadersSoFar) :
          /\ k < l
          /\ ReadersSoFar[k].part = ReadersSoFar[l].part
          /\ Len(ReadersSoFar[l].ranges) >= 2

\* ------------------------------------------------------------ C19
\* the chunks the split of the range at the back of the stack pushes, the
\* leftmost chunk last
ChunksOfBack == SplitRange(<<>>, Back(ranges_stack))

\* the chunks, rightmost first, tile the range: the first ends at range.end,
\* each begins where the next ends, the last begins at range.begin
TileExactly(chunks, range) ==
    /\ chunks # <<>>
    /\ chunks[1].end = range.end
    /\ Back(chunks).begin = range.begin
    /\ \A k \in 1 .. Len(chunks) - 1 : chunks[k].begin = chunks[k + 1].end
    /\ \A k \in 1 .. Len(chunks) : chunks[k].begin < chunks[k].end

OthersHaveStep(chunks, step) ==
    \A k \in 1 .. Len(chunks) - 1 : RangeLen(chunks[k]) = step

\* C19 as stated: the chunks pushed for a passing range r of two or more
\* marks tile r, the leftmost chunk is [r.begin, end) with end the largest
\* r.begin + k * step not above r.end, and every other chunk has step marks.
C19_LeftmostAbsorbsRemainder ==
    (marks_count >= 1 /\ SplitsNext) =>
        LET r == Back(ranges_stack)
            step == (RangeLen(r) - 1) \div coarse_index_granularity + 1
        IN  /\ SplitStep(r) = step
            /\ TileExactly(ChunksOfBack, r)
            /\ Back(ChunksOfBack) = MarkRange(r.begin, r.begin + (RangeLen(r) \div step) * step)
            /\ OthersHaveStep(ChunksOfBack, step)

\* C19, amended: the chunks tile r from the right in chunks of step marks; the
\* leftmost chunk is what is left, [r.begin, end) with end the smallest
\* r.end - k * step above r.begin, of 1 to step marks.
C19_LeftmostIsRemainder ==
    (marks_count >= 1 /\ SplitsNext) =>
        LET r == Back(ranges_stack)
            step == (RangeLen(r) - 1) \div coarse_index_granularity + 1
        IN  /\ SplitStep(r) = step
            /\ TileExactly(ChunksOfBack, r)
            /\ Back(ChunksOfBack) = MarkRange(r.begin, r.end - ((RangeLen(r) - 1) \div step) * step)
            /\ RangeLen(Back(ChunksOfBack)) \in 1 .. step
            /\ OthersHaveStep(ChunksOfBack, step)

\* the stack after the split of the first range: the leftmost chunk, on top,
\* is shorter than the chunk to its right
C19_Witness ==
    /\ pk_pc = "loop"
    /\ marks_count >= 1
    /\ probed /\ hits = <<>> /\ misses = {}
    /\ Len(ranges_stack) >= 2
    /\ Back(ranges_stack).begin = 0
    /\ Back(ranges_stack).end = ranges_stack[Len(ranges_stack) - 1].begin
    /\ RangeLen(Back(ranges_stack)) < RangeLen(ranges_stack[Len(ranges_stack) - 1])
    /\ ranges_stack[1].end = marks_count

\* ------------------------------------------------------------ C20
\* the places of the calls of key_condition.addCondition in the steps of read
AddConditionCalls ==
    {k \in 1 .. Len(events) : events[k] \in {"addCondition", "addCondition_refused"}}

HasEvent(names) == \E k \in 1 .. Len(events) : events[k] \in names

\* addCondition is called at most once, under a sample clause only, after
\* every preliminary scan and before every scan of the ranges pass
AddConditionInPlace ==
    /\ Cardinality(AddConditionCalls) <= 1
    /\ AddConditionCalls # {} => query.has_sample
    /\ Len(key_condition.added) = (IF HasEvent({"addCondition"}) THEN 1 ELSE 0)
    /\ \A k \in AddConditionCalls :
          \A j \in 1 .. Len(events) :
              /\ events[j] = "prescan" => j < k
              /\ events[j] \in {"ranges", "spread"} => k < j

\* a negative sample size: no index scan, no addCondition, ARGUMENT_OUT_OF_BOUND
NegativeSampleFailsFirst ==
    (query.has_sample /\ query.sample_num < 0) =>
        /\ ~HasEvent({"prescan", "addCondition", "addCondition_refused", "ranges", "spread"})
        /\ rd_pc \in {"start", "sample", "error"}
        /\ rd_pc = "error" => error = "ARGUMENT_OUT_OF_BOUND"

\* a sampling column that is not of an unsigned type: no addCondition,
\* ILLEGAL_TYPE_OF_COLUMN_FOR_FILTER
IllegalTypeFailsBeforeAddCondition ==
    (query.has_sample /\ query.sample_num >= 0 /\ data.sampling_type \notin UnsignedTypes) =>
        /\ AddConditionCalls = {}
        /\ ~HasEvent({"ranges", "spread"})
        /\ rd_pc \notin {"ranges", "ranges_call", "spread", "done"}
        /\ rd_pc = "error" => error = "ILLEGAL_TYPE_OF_COLUMN_FOR_FILTER"

\* read that failed has returned no stream
NoPartialResult ==
    /\ rd_pc = "error" => (rd_res = <<>> /\ error # "")
    /\ rd_pc # "error" => error = ""
    /\ rd_res # <<>> => rd_pc = "done"

\* key_condition changes in the one successful addCondition step only
MutatedByAddConditionOnly ==
    key_condition' # key_condition =>
        /\ AddConditionCalls = {}
        /\ events' = Append(events, "addCondition")
        /\ Len(key_condition'.added) = 1

\* C20: in every run of read, addCondition is called at most once, never
\* without a sample clause, after the preliminary scan and before the ranges
\* pass, and key_condition changes in that call only; a negative sample size
\* fails with ARGUMENT_OUT_OF_BOUND before any index scan or addCondition, a
\* sampling column of a non-unsigned type fails before addCondition, and a
\* failed read returns no stream.
C20_StepOrderAndErrors ==
    /\ [](/\ AddConditionInPlace
          /\ NegativeSampleFailsFirst
          /\ IllegalTypeFailsBeforeAddCondition
          /\ NoPartialResult)
    /\ [][MutatedByAddConditionOnly]_vars

\* read returned streams after a preliminary scan, one addCondition and a
\* ranges pass
C20_Witness ==
    /\ rd_pc = "done"
    /\ rd_res # <<>>
    /\ HasEvent({"prescan"})
    /\ HasEvent({"addCondition"})
    /\ HasEvent({"ranges"})
    /\ Len(key_condition.added) = 1

=============================================================================
